---- MODULE Spec2Model ----
(***************************************************************************)
(* The TLS server endpoint of s2n-quic-tls (src/quic/s2n-quic-tls/src/     *)
(* server.rs): the Builder, the Server it builds, the sessions the Server  *)
(* creates, and the client-hello callback the built configuration          *)
(* registers with the handshake engine.                                    *)
(*                                                                         *)
(* Two specifications are given.                                           *)
(*   Spec         the program as written: client_hello_cb reaches the      *)
(*                todo!() of line 174 and panics on every invocation.      *)
(*   SpecAdapter  the same program with the client-hello accessor of line  *)
(*                173 in place of the todo!(), so that the poll and the    *)
(*                match of lines 176-189 are executed. The context the     *)
(*                callback dereferences is the address 4 registered by     *)
(*                build(), which designates no ClientHelloCb: what the     *)
(*                poll through it yields is a nondeterministic choice.     *)
(***************************************************************************)
EXTENDS Integers, Sequences, FiniteSets, TLC

\* ------------------------------------------------------------------ bounds
MaxSessions == 2
MaxBuilderOps == 2
MaxPending == 1

\* ------------------------------------------------------------------ values
None == "None"

\* s2n_status_code::SUCCESS / FAILURE (lines 185, 187, 188)
SUCCESS == 0
FAILURE == -1

\* the context build() registers with the callback (line 144)
ContextAddr == 4

\* the resolvers a caller may attach; each answers its first poll with
\* Ready(Ok(ResolverConfig(r)))
Resolvers == {"RX", "RY"}

\* the protocol lists a caller may pass to with_application_protocols
ProtocolLists == {<<"h3">>, <<"hq">>, <<>>}

\* the transport parameters a caller may pass to new_server_session
ParamValues == {"tp1"}

\* the server names a caller may pass to new_client_session
ServerNames == {"localhost", "example.com"}

\* the addresses at which a ClientHelloCb lives: the struct is declared
\* (lines 160-163) and constructed nowhere
LiveClientHelloCbs == {}

\* config::Builder after Builder::default() (lines 55-63)
DefaultConfigBuilder ==
    [ quic              |-> TRUE,
      security_policy   |-> "DEFAULT_TLS13",
      alpn              |-> <<"h3">>,
      config_resolver   |-> None,
      key_log_cb        |-> None,
      ch_cb_mode        |-> "BLOCKING",
      ch_cb             |-> None,
      ch_ctx            |-> 0 ]

\* Builder::default() (lines 65-69); live is FALSE once the value has been
\* moved out (every builder operation takes self by value)
DefaultBuilder ==
    [ live            |-> TRUE,
      config          |-> DefaultConfigBuilder,
      keylog          |-> None,
      config_resolver |-> None ]

ConsumedBuilder == [ DefaultBuilder EXCEPT !.live = FALSE ]

\* no Server yet: built is FALSE
NoServer ==
    [ built           |-> FALSE,
      config          |-> DefaultConfigBuilder,
      keylog          |-> None,
      config_resolver |-> None,
      params          |-> "default" ]

\* what KeyLog::try_open() may return (line 121)
KeyLogOpens == { None, "KeyLogHandle" }

\* the Configuration a resolver hands back: not built by this Builder
ResolverConfig(r) ==
    [ quic              |-> TRUE,
      security_policy   |-> "DEFAULT_TLS13",
      alpn              |-> <<r>>,
      config_resolver   |-> None,
      key_log_cb        |-> None,
      ch_cb_mode        |-> "BLOCKING",
      ch_cb             |-> None,
      ch_ctx            |-> 0 ]

ResolvedConfigs == { ResolverConfig(r) : r \in Resolvers }

\* the config field of a Poll value that carries no configuration
NoConfig == DefaultConfigBuilder

\* Poll<Result<Config, Error>> (lines 180, 187, 188)
PollReadyOk(c) == [ tag |-> "ReadyOk", config |-> c ]
PollReadyErr == [ tag |-> "ReadyErr", config |-> NoConfig ]
PollPending == [ tag |-> "Pending", config |-> NoConfig ]
PollNone == [ tag |-> "none", config |-> NoConfig ]
PollOutcomes == { PollReadyOk(c) : c \in ResolvedConfigs } \cup { PollReadyErr, PollPending }

VARIABLES
    builder,    \* the Builder value being chained (live = FALSE once consumed)
    server,     \* the Server build() returned (built = FALSE before)
    sessions,   \* the sessions new_server_session returned, in order
    conns,      \* the native connection of each session
    cb,         \* the activation of client_hello_cb on each connection
    result,     \* what the last builder or endpoint operation returned
    nops,       \* operations chained on the live builder (0 once it is consumed)
    aborted     \* a panic has ended the program

vars == <<builder, server, sessions, conns, cb, result, nops, aborted>>

\* opened and engine_ok are what KeyLog::try_open() and set_key_log_callback
\* answered when the operation was with_key_logging
RetKeyLog(op, value, opened, engine_ok) ==
    [ op |-> op, value |-> value, opened |-> opened, engine_ok |-> engine_ok ]

Ret(op, value) == RetKeyLog(op, value, None, TRUE)

Init ==
    /\ builder = DefaultBuilder
    /\ server = NoServer
    /\ sessions = <<>>
    /\ conns = <<>>
    /\ cb = <<>>
    /\ result = Ret("builder", "Ok")
    /\ nops = 0
    /\ aborted = FALSE

\* ------------------------------------------------------------ the Builder
\* the resolver stored in the Builder's own config_resolver field as well
with_config_resolver_stores(b, r) ==
    [ b EXCEPT !.config.config_resolver = r, !.config_resolver = r ]

\* with_config_resolver (lines 74-80): the resolver goes to the config builder
with_config_resolver(b, r) ==
    [ b EXCEPT !.config.config_resolver = r ]

\* with_application_protocols (lines 82-88)
with_application_protocols(b, p) ==
    [ b EXCEPT !.config.alpn = p ]

\* with_key_logging without the else branch of lines 128-132: a callback set
\* by an earlier call stays registered when the sink does not open
with_key_logging_keeps_callback(b, opened) ==
    [ b EXCEPT !.keylog = opened,
               !.config.key_log_cb = IF opened # None THEN "KeyLog::callback" ELSE @ ]

\* with_key_logging (lines 118-136)
with_key_logging(b, opened) ==
    [ b EXCEPT !.keylog = opened,
               !.config.key_log_cb = IF opened # None THEN "KeyLog::callback" ELSE None ]

\* the registration done only when a resolver was attached (the condition
\* commented out on line 139)
register_client_hello_cb_if_resolver(c) ==
    IF c.config_resolver = None THEN c
    ELSE [ c EXCEPT !.ch_cb_mode = "NONBLOCKING",
                    !.ch_cb = "client_hello_cb",
                    !.ch_ctx = ContextAddr ]

\* build, lines 140-148: the callback mode and the callback with its context
register_client_hello_cb(c) ==
    [ c EXCEPT !.ch_cb_mode = "NONBLOCKING",
               !.ch_cb = "client_hello_cb",
               !.ch_ctx = ContextAddr ]

\* build, lines 151-156
build(b) ==
    [ built           |-> TRUE,
      config          |-> register_client_hello_cb(b.config),
      keylog          |-> b.keylog,
      config_resolver |-> b.config_resolver,
      params          |-> "default" ]

\* a builder operation that returns Err drops the builder
BuilderStepRet(ret, ok, next) ==
    /\ ~aborted
    /\ builder.live
    /\ nops < MaxBuilderOps
    /\ nops' = IF ok THEN nops + 1 ELSE 0
    /\ builder' = IF ok THEN next ELSE ConsumedBuilder
    /\ result' = ret
    /\ UNCHANGED <<server, sessions, conns, cb, aborted>>

BuilderStep(op, ok, next) ==
    BuilderStepRet(Ret(op, IF ok THEN "Ok" ELSE "Err"), ok, next)

WithConfigResolver ==
    \E r \in Resolvers, ok \in BOOLEAN :
        BuilderStep("with_config_resolver", ok, with_config_resolver(builder, r))

WithApplicationProtocols ==
    \E p \in ProtocolLists :
        BuilderStep("with_application_protocols", p # <<>>,
                    with_application_protocols(builder, p))

\* ok is the engine's answer to set_key_log_callback (lines 126-131), the
\* only fallible call of with_key_logging
WithKeyLogging ==
    \E opened \in KeyLogOpens, ok \in BOOLEAN :
        BuilderStepRet(RetKeyLog("with_key_logging", IF ok THEN "Ok" ELSE "Err", opened, ok),
                       ok, with_key_logging(builder, opened))

\* build (lines 138-157): modeOk, cbOk and buildOk are the engine's answers to
\* set_client_hello_callback_mode, set_client_hello_callback and config.build
Build ==
    \E modeOk, cbOk, buildOk \in BOOLEAN :
        /\ ~aborted
        /\ builder.live
        /\ builder' = ConsumedBuilder
        /\ IF ~modeOk THEN
               /\ result' = Ret("build", "Err")
               /\ server' = server
               /\ aborted' = aborted
           ELSE IF ~cbOk THEN
               /\ result' = Ret("build", "panic")
               /\ server' = server
               /\ aborted' = TRUE
           ELSE IF ~buildOk THEN
               /\ result' = Ret("build", "Err")
               /\ server' = server
               /\ aborted' = aborted
           ELSE
               /\ result' = Ret("build", "Ok")
               /\ server' = build(builder)
               /\ aborted' = aborted
        /\ nops' = 0
        /\ UNCHANGED <<sessions, conns, cb>>

\* ----------------------------------------------------------- the Endpoint
\* Session::new(endpoint_type, config, params, config_resolver): the session
\* and the native connection it wraps, bound to the configuration passed in
SessionNew(endpoint_type, config, params, config_resolver) ==
    [ endpoint_type   |-> endpoint_type,
      config          |-> config,
      params          |-> params,
      config_resolver |-> config_resolver,
      dropped         |-> FALSE ]

\* the native connection of a new session, set to the session's configuration
ConnectionNew(config) ==
    [ config   |-> config,     \* the configuration installed on the connection
      ch_done  |-> FALSE,      \* client_hello_callback_done has been called
      hs       |-> "checkpoint",
      invoked  |-> 0,          \* invocations of the client-hello callback
      polls    |-> 0,          \* calls of poll_config
      installs |-> 0,          \* set_config_raw calls that succeeded
      wakes    |-> 0,          \* resumption signals raised
      late     |-> 0,          \* of these, raised after the connection was freed
      woken    |-> FALSE ]     \* a resumption signal is waiting to be served

\* an idle callback activation: log holds, per completed invocation, the poll
\* outcome, the status code returned to the engine and whether the checkpoint
\* was marked done when it returned
CbIdle == [ pc |-> "idle", client_hello |-> None, poll |-> PollNone, log |-> <<>> ]

\* a session built on a fresh default configuration instead of the clone
new_server_session_default_config(srv, p) ==
    SessionNew("Server", DefaultConfigBuilder, p, srv.config_resolver)

\* new_server_session, lines 196-199: the session built from a clone of the
\* configuration and whatever the resolver slot holds
new_server_session(srv, p) ==
    SessionNew("Server", srv.config, p, srv.config_resolver)

\* new_server_session, line 197: config_resolver.take() empties the slot
take_config_resolver(srv) ==
    [ srv EXCEPT !.config_resolver = None ]

NewServerSession ==
    \E p \in ParamValues :
        /\ ~aborted
        /\ server.built
        /\ Len(sessions) < MaxSessions
        /\ sessions' = Append(sessions, new_server_session(server, p))
        /\ conns' = Append(conns, ConnectionNew(new_server_session(server, p).config))
        /\ cb' = Append(cb, CbIdle)
        /\ server' = take_config_resolver(server)
        /\ result' = Ret("new_server_session", "Session")
        /\ UNCHANGED <<builder, nops, aborted>>

\* new_client_session returning an error value to the caller
NewClientSessionReturnsErr ==
    \E p \in ParamValues, sn \in ServerNames :
        /\ ~aborted
        /\ server.built
        /\ result' = Ret("new_client_session", "Err")
        /\ UNCHANGED <<builder, server, sessions, conns, cb, nops, aborted>>

\* new_client_session (lines 203-209): panics whatever it is passed
NewClientSession ==
    \E p \in ParamValues, sn \in ServerNames :
        /\ ~aborted
        /\ server.built
        /\ result' = Ret("new_client_session", "panic")
        /\ aborted' = TRUE
        /\ UNCHANGED <<builder, server, sessions, conns, cb, nops>>

\* ------------------------------------------------- the handshake engine
Conns == 1..Len(conns)

\* the engine reaches the client-hello checkpoint of connection c and calls the
\* callback registered on the connection's configuration with the registered
\* context; it calls again only once a resumption signal has been raised
EngineInvoke(c) ==
    /\ ~aborted
    /\ conns[c].hs = "checkpoint"
    /\ conns[c].config.ch_cb = "client_hello_cb"
    /\ ~conns[c].ch_done
    /\ cb[c].pc = "idle"
    /\ conns[c].invoked = 0 \/ conns[c].woken
    /\ conns' = [ conns EXCEPT ![c].invoked = @ + 1, ![c].woken = FALSE ]
    /\ cb' = [ cb EXCEPT ![c].pc = "L170", ![c].client_hello = None, ![c].poll = PollNone ]
    /\ UNCHANGED <<builder, server, sessions, result, nops, aborted>>

\* what the engine does with the status code the callback returns, in
\* NONBLOCKING mode: FAILURE fails the handshake, SUCCESS lets it proceed once
\* the callback has been marked done
EngineOnReturn(conn, code) ==
    IF code = FAILURE THEN [ conn EXCEPT !.hs = "failed" ]
    ELSE IF conn.ch_done THEN [ conn EXCEPT !.hs = "proceeded" ]
    ELSE conn

\* ------------------------------------------------------- client_hello_cb
\* line 174 as written: todo!() panics inside the extern "C" function
CbTodo(c) ==
    /\ ~aborted
    /\ cb[c].pc = "L170"
    /\ cb' = [ cb EXCEPT ![c].pc = "panicked" ]
    /\ aborted' = TRUE
    /\ UNCHANGED <<builder, server, sessions, conns, result, nops>>

\* lines 170-178 with the accessor of line 173: the snapshot is taken and
\* poll_config is called on the resolver the context designates
CbGetClientHello(c) ==
    /\ ~aborted
    /\ cb[c].pc = "L170"
    /\ cb' = [ cb EXCEPT ![c].pc = "L176", ![c].client_hello = "snapshot" ]
    /\ conns' = [ conns EXCEPT ![c].polls = @ + 1 ]
    /\ UNCHANGED <<builder, server, sessions, result, nops, aborted>>

Pendings(log) == Cardinality({ i \in 1..Len(log) : log[i].poll = PollPending })

\* the Ready(Err) arm returning the proceed code
client_hello_cb_code_err_success(o) ==
    SUCCESS

\* lines 180-189, the status code of each arm
client_hello_cb_code(o) ==
    CASE o.tag = "ReadyOk" -> SUCCESS
      [] o.tag = "ReadyErr" -> FAILURE
      [] o.tag = "Pending" -> SUCCESS

\* lines 181 and 183: either unwrap() panics when the engine refuses the call
client_hello_cb_panics(o, doneOk, setOk) ==
    o.tag = "ReadyOk" /\ (~doneOk \/ ~setOk)

\* every arm installing what the poll carried, Pending and Ready(Err) included
client_hello_cb_conn_installs_early(conn, o, doneOk, setOk) ==
    IF o.tag = "ReadyOk"
    THEN [ conn EXCEPT !.ch_done = TRUE, !.config = o.config, !.installs = @ + 1 ]
    ELSE [ conn EXCEPT !.config = o.config, !.installs = @ + 1 ]

\* the Pending arm calling set_config_raw too, with the configuration the
\* connection already has
client_hello_cb_conn_sets_on_pending(conn, o, doneOk, setOk) ==
    IF o.tag = "ReadyErr" THEN conn
    ELSE IF o.tag = "Pending" THEN [ conn EXCEPT !.installs = @ + 1 ]
    ELSE [ conn EXCEPT !.ch_done = TRUE, !.config = o.config, !.installs = @ + 1 ]

\* the Pending arm marking the checkpoint done as the Ready(Ok) arm does
client_hello_cb_conn_done_on_pending(conn, o, doneOk, setOk) ==
    IF o.tag = "ReadyErr" THEN conn
    ELSE IF o.tag = "Pending" THEN [ conn EXCEPT !.ch_done = TRUE ]
    ELSE [ conn EXCEPT !.ch_done = TRUE, !.config = o.config, !.installs = @ + 1 ]

\* the Ready(Ok) arm marking the checkpoint done without line 183
client_hello_cb_conn_skips_install(conn, o, doneOk, setOk) ==
    IF o.tag = "ReadyOk" THEN [ conn EXCEPT !.ch_done = TRUE ] ELSE conn

\* lines 180-189, the effect of each arm on the connection: the checkpoint is
\* marked done (line 181), then the configuration is installed (line 183)
client_hello_cb_conn(conn, o, doneOk, setOk) ==
    IF o.tag # "ReadyOk" \/ ~doneOk THEN conn
    ELSE IF ~setOk THEN [ conn EXCEPT !.ch_done = TRUE ]
    ELSE [ conn EXCEPT !.ch_done = TRUE, !.config = o.config, !.installs = @ + 1 ]

\* what one completed invocation leaves in the log
LogEntry(conn, o, doneOk, setOk) ==
    [ poll |-> o,
      code |-> client_hello_cb_code(o),
      done |-> client_hello_cb_conn(conn, o, doneOk, setOk).ch_done ]

\* lines 176-189: poll_config returns and the match on its outcome runs, up
\* to the return to the engine. The context is address 4, no ClientHelloCb:
\* the call through it faults or yields any Poll value
CbPollMatch(c) ==
    /\ ~aborted
    /\ cb[c].pc = "L176"
    /\ \/ \E o \in PollOutcomes, doneOk, setOk \in BOOLEAN :
             /\ o = PollPending => Pendings(cb[c].log) < MaxPending
             /\ IF client_hello_cb_panics(o, doneOk, setOk) THEN
                    /\ conns' = [ conns EXCEPT ![c] =
                                    client_hello_cb_conn(@, o, doneOk, setOk) ]
                    /\ cb' = [ cb EXCEPT ![c].pc = "panicked", ![c].poll = o ]
                    /\ aborted' = TRUE
                ELSE
                    /\ conns' = [ conns EXCEPT ![c] =
                                    EngineOnReturn(client_hello_cb_conn(@, o, doneOk, setOk),
                                                   client_hello_cb_code(o)) ]
                    /\ cb' = [ cb EXCEPT ![c].pc = "idle", ![c].poll = o,
                                         ![c].log = Append(@, LogEntry(conns[c], o, doneOk, setOk)) ]
                    /\ aborted' = aborted
       \/ /\ cb' = [ cb EXCEPT ![c].pc = "faulted" ]
          /\ conns' = conns
          /\ aborted' = TRUE
    /\ UNCHANGED <<builder, server, sessions, result, nops>>

\* the resolver raises the resumption signal it was handed by a poll that
\* returned Pending; the signal reaches the engine only while the handle is
\* valid, that is while the connection exists
Wake(c) ==
    /\ ~aborted
    /\ cb[c].pc = "idle"
    /\ conns[c].hs \in {"checkpoint", "closed"}
    /\ conns[c].wakes < Pendings(cb[c].log)
    /\ ~conns[c].woken
    /\ conns' = [ conns EXCEPT ![c].woken = (conns[c].hs = "checkpoint"),
                               ![c].wakes = @ + 1,
                               ![c].late = IF conns[c].hs = "closed" THEN @ + 1 ELSE @ ]
    /\ UNCHANGED <<builder, server, sessions, cb, result, nops, aborted>>

\* ------------------------------------------------------------- teardown
\* dropping a session: the native connection is freed, the resumption handle
\* invalidated and the resolver the session holds released
SessionDrop(session) ==
    [ session EXCEPT !.dropped = TRUE, !.config_resolver = None ]

\* a teardown that leaves the connection at its checkpoint, handle still valid
ConnectionFreeKeepsHandle(conn) ==
    conn

ConnectionFree(conn) ==
    [ conn EXCEPT !.hs = "closed", !.woken = FALSE ]

Teardown(c) ==
    /\ ~aborted
    /\ cb[c].pc = "idle"
    /\ ~sessions[c].dropped
    /\ sessions' = [ sessions EXCEPT ![c] = SessionDrop(@) ]
    /\ conns' = [ conns EXCEPT ![c] = ConnectionFree(@) ]
    /\ UNCHANGED <<builder, server, cb, result, nops, aborted>>

\* ------------------------------------------------------- specifications
Endpoint ==
    \/ WithConfigResolver
    \/ WithApplicationProtocols
    \/ WithKeyLogging
    \/ Build
    \/ NewServerSession
    \/ NewClientSession

Next ==
    \/ Endpoint
    \/ \E c \in Conns : EngineInvoke(c)
    \/ \E c \in Conns : CbTodo(c)
    \/ \E c \in Conns : Teardown(c)

Spec == Init /\ [][Next]_vars

NextAdapter ==
    \/ Endpoint
    \/ \E c \in Conns : EngineInvoke(c)
    \/ \E c \in Conns : CbGetClientHello(c)
    \/ \E c \in Conns : CbPollMatch(c)
    \/ \E c \in Conns : Wake(c)
    \/ \E c \in Conns : Teardown(c)

SpecAdapter == Init /\ [][NextAdapter]_vars

\* the program as written, with an engine that does call the callback of a
\* connection waiting at its checkpoint and a callback that, once entered,
\* runs on
SpecFair ==
    /\ Init
    /\ [][Next]_vars
    /\ WF_vars(\E c \in Conns : EngineInvoke(c))
    /\ WF_vars(\E c \in Conns : CbTodo(c))

\* ----------------------------------------------------------------- claims
\* a resolver was attached with with_config_resolver before the endpoint that
\* created connection c was built
Registered(c) == sessions[c].config.config_resolver \in Resolvers

\* the callback has been invoked on c and is no longer executing
CbRan(c) == conns[c].invoked >= 1 /\ cb[c].pc \notin {"L170", "L176"}

LastEntry(c) == cb[c].log[Len(cb[c].log)]

\* C1: for a resolver attached with with_config_resolver that answers its
\* first poll with Ready(X), once the callback has run on a session the
\* configuration installed on the connection is X and the callback returned
\* the proceed code.
C1_ReadyInstallsResolved ==
    \A c \in Conns :
        (Registered(c) /\ CbRan(c)) =>
            /\ conns[c].config = ResolverConfig(sessions[c].config.config_resolver)
            /\ Len(cb[c].log) >= 1
            /\ cb[c].log[1].code = SUCCESS

C6_ConsultedOnEveryConnection ==
    \A c \in Conns :
        (Registered(c) /\ CbRan(c)) => conns[c].polls >= 1

\* C7: right after new_server_session on an endpoint built with a resolver
\* attached, the first session holds that resolver and the endpoint's slot is
\* empty.
C7_ResolverMovedIntoSession ==
    (/\ result = Ret("new_server_session", "Session")
     /\ Len(sessions) = 1
     /\ ~sessions[1].dropped
     /\ Registered(1)) =>
        /\ sessions[1].config_resolver = sessions[1].config.config_resolver
        /\ server.config_resolver = None

C11_EventuallyResolved ==
    \A c \in 1..MaxSessions :
        [](((c \in Conns) /\ Registered(c) /\ conns[c].invoked >= 1) =>
              <>((c \in Conns) /\ conns[c].ch_done /\ conns[c].installs = 1))

C13_RegistrationFailureIsError ==
    (result.op = "build" /\ ~server.built) =>
        (result.value = "Err" /\ ~aborted)

\* C14: with_key_logging fails only when the engine refuses the callback, not
\* when the sink does not open; the builder then holds what try_open returned,
\* and in the builder and in every Server the key-log callback is registered
\* exactly when a key-log handle is held.
C14_KeyLogBestEffort ==
    /\ (result.op = "with_key_logging" /\ result.engine_ok) =>
           /\ result.value = "Ok"
           /\ builder.live
           /\ builder.keylog = result.opened
    /\ builder.live =>
           ((builder.keylog = None) <=> (builder.config.key_log_cb = None))
    /\ server.built =>
           ((server.keylog = None) <=> (server.config.key_log_cb = None))

\* with_key_logging, chained as the second builder operation, has just
\* returned Ok although the sink did not open
C14_Witness ==
    /\ result = RetKeyLog("with_key_logging", "Ok", None, TRUE)
    /\ nops = 2
    /\ builder.keylog = None
    /\ builder.config.key_log_cb = None

\* C15: a step in which new_client_session answers is a panic that ends the
\* program and leaves the endpoint, its sessions and their connections as
\* they were.
C15_ClientSessionPanics ==
    [][ (~aborted /\ result'.op = "new_client_session") =>
            /\ result'.value = "panic"
            /\ aborted'
            /\ UNCHANGED <<builder, server, sessions, conns, cb>> ]_vars

\* new_client_session was called on an endpoint that has created a session
C15_Witness ==
    /\ result = Ret("new_client_session", "panic")
    /\ aborted
    /\ Len(sessions) >= 1
    /\ server.built

\* C16: once the callback has been entered on a connection and is no longer
\* executing, it has taken the client-hello snapshot and polled the resolver,
\* exactly once for the first entry.
C16_FirstEntrySnapshotThenPoll ==
    \A c \in Conns :
        (conns[c].invoked = 1 /\ cb[c].pc \notin {"L170", "L176"}) =>
            /\ cb[c].client_hello = "snapshot"
            /\ conns[c].polls = 1

\* C17: while the callback executes on a connection, the context it was passed
\* is a live ClientHelloCb that no other connection's callback is passed.
C17_ContextLiveAndExclusive ==
    \A c \in Conns :
        cb[c].pc \in {"L170", "L176"} =>
            /\ conns[c].config.ch_ctx \in LiveClientHelloCbs
            /\ \A d \in Conns \ {c} : conns[d].config.ch_ctx # conns[c].config.ch_ctx

\* C18: the Builder's and the Server's config_resolver slots are always empty
\* and every session is constructed with no resolver.
C18_ResolverSlotAlwaysEmpty ==
    /\ builder.config_resolver = None
    /\ server.config_resolver = None
    /\ \A i \in 1..Len(sessions) : sessions[i].config_resolver = None

\* a session created from a Server built after with_config_resolver
C18_Witness ==
    /\ server.built
    /\ server.config.config_resolver \in Resolvers
    /\ Len(sessions) >= 1
    /\ ~sessions[1].dropped

\* C19: every Server's configuration has client_hello_cb registered in
\* NONBLOCKING mode with the context of line 144, resolver or not.
C19_CallbackAlwaysRegistered ==
    server.built =>
        /\ server.config.ch_cb = "client_hello_cb"
        /\ server.config.ch_cb_mode = "NONBLOCKING"
        /\ server.config.ch_ctx = ContextAddr

\* the callback has been invoked on a connection of an endpoint built with no
\* resolver attached
C19_Witness ==
    \E c \in Conns :
        /\ server.config.config_resolver = None
        /\ sessions[c].config.config_resolver = None
        /\ conns[c].invoked >= 1

\* C20: once built, the Server's configuration never changes and an empty
\* resolver slot stays empty, and every session holds a configuration equal
\* to the Server's.
C20_BaseConfigurationFrozen ==
    /\ [][ server.built =>
               /\ server'.config = server.config
               /\ (server.config_resolver = None => server'.config_resolver = None) ]_vars
    /\ [](\A i \in 1..Len(sessions) : sessions[i].config = server.config)

\* two sessions created from one Server built with non-default settings
C20_Witness ==
    /\ Len(sessions) = 2
    /\ server.config.alpn = <<"hq">>
    /\ sessions[1].config = server.config
    /\ sessions[2].config = server.config

====
